---------------------------- MODULE Spec2Model ----------------------------
(***************************************************************************)
(* A model of the falling-petals background animation (petals.js, kept as *)
(* src/unnamed/part_000).                                                  *)
(*                                                                         *)
(* Numbers.  The script computes in IEEE doubles; the model computes in    *)
(* integers with a fixed scale and rounds every product down:              *)
(*   lengths and positions   1e-6 px        velocities   1e-6 px/s         *)
(*   angles                  1e-6 rad       alpha        1e-4              *)
(*   timestamps              1 ms           perf.avgMs   1e-3 ms           *)
(*   visibility boost, blur  1e-2           Math.random  1e-3              *)
(* Math.random is a stream: every handler run draws a seed from Seeds and  *)
(* its n-th call returns RandomAt(seed, n).  The sway and flutter fields   *)
(* of a petal only feed the drawing transform and are left out; of the 13  *)
(* shape parameters (all drawn once, never written) four are kept.         *)
(***************************************************************************)
EXTENDS Integers, Sequences, FiniteSets, TLC

(* ------------------------------ bounds --------------------------------- *)

\* handler runs explored from each start state under Spec
MaxSteps == 2
\* frames explored under SpecQuality (ticks only)
MaxFrames == 32
\* last frame timestamp (ms) explored under SpecQuality
MaxT == 2480
\* seeds of the Math.random stream a handler run may draw
NumSeeds == 2
\* start() calls after the first, and frames, explored under SpecRestart
MaxRestarts == 2
MaxRestartFrames == 3
\* frames of a run with stalls
MaxStallFrames == 4
\* input events and timeouts recorded and, for input events, explored
MaxEvents == 4

(* --------------------------- fixed point ------------------------------- *)

Micro == 1000 * 1000

Max(a, b) == IF a >= b THEN a ELSE b

Min(a, b) == IF a <= b THEN a ELSE b

\* floor(a * b / c) for c > 0, b >= 0, without leaving 32 bits
MulDiv(a, b, c) == (a \div c) * b + ((a % c) * b) \div c

\* Math.round of n / d (d > 0): halves go up
RoundDiv(n, d) == (2 * n + d) \div (2 * d)

\* Math.ceil of n / d (d > 0)
CeilDiv(n, d) == -((-n) \div d)

clamp(v, min, max) == Max(min, Min(max, v))

\* lerp(a, b, t) with t = tNum / tDen
lerp(a, b, tNum, tDen) == a + MulDiv(b - a, tNum, tDen)

(* ----------------------------- config ---------------------------------- *)

baseCount == 42
maxCountCfg == 90
minCount == 12
refArea == 1100 * 700
\* config.minSize, config.maxSize in 1e-3 px
minSizeMilli == 8000
maxSizeMilli == 28000
\* config.motion in 1e-3
motionMilli == 400
\* the reduced-motion factor 0.08 in 1e-3
reducedMilli == 80
\* wind: bias, gustiness in 1e-6; strength * 20 = 2.4 and scale 0.11 as ratios
windBiasMicro == 620000
windGustMicro == 180000
\* config.windStrength 0.12 and config.windScale 0.11 in 1e-3
windStrengthMilli == 120
windScaleMilli == 110
\* cooldown and thresholds of maybeAdjustQuality (ms; 1e-3 ms)
cooldownMs == 1200
slowAvg == 30000
fastAvg == 18000
\* perf.avgMs at load, 16.7 ms
initAvg == 16700
\* dt clamp, 0.04 s
maxDtMs == 40
\* alpha floor and ceiling, 0.42 and 0.95, in 1e-4
alphaFloor == 4200
alphaCeil == 9500

\* quality.levels: dprMax and countScale in 1e-2; blurPx in 1e-2
\* (0.7, max(0.4, 0.7 * 0.8) = 0.56, max(0.2, 0.7 * 0.6) = 0.42)
levels ==
  << [dprMax |-> 200, countScale |-> 100, blurPx |-> 70],
     [dprMax |-> 150, countScale |-> 82, blurPx |-> Max(40, (70 * 8) \div 10)],
     [dprMax |-> 125, countScale |-> 62, blurPx |-> Max(20, (70 * 6) \div 10)] >>

palette ==
  [fillA |-> << <<255, 230, 240>>, <<255, 220, 235>>, <<255, 205, 225>> >>,
   fillB |-> << <<255, 255, 255>>, <<255, 245, 250>> >>,
   targetA |-> <<245, 165, 195>>,
   targetB |-> <<255, 225, 238>>]

\* the five preference queries of contrastQueries
Queries == {"more", "less", "reduceTransparency", "forcedColors", "gamutP3"}

(* --------------------------- environment ------------------------------- *)

\* window.innerWidth / innerHeight / devicePixelRatio (1e-2) the host reports
Screens ==
  { [innerWidth |-> 0, innerHeight |-> 0, devicePixelRatio |-> 50],
    [innerWidth |-> 300, innerHeight |-> 300, devicePixelRatio |-> 300],
    [innerWidth |-> 700, innerHeight |-> 330, devicePixelRatio |-> 150] }

\* hosts: matchMedia is "none" (absent), "static" (its query objects have
\* neither addEventListener nor addListener), "legacy" (addListener only)
\* or "modern"; offscreen is whether OffscreenCanvas is defined
Modern == [matchMedia |-> "modern", offscreen |-> TRUE]

Legacy == [matchMedia |-> "legacy", offscreen |-> FALSE]

Bare == [matchMedia |-> "none", offscreen |-> TRUE]

Static == [matchMedia |-> "static", offscreen |-> TRUE]

\* what the preference queries match: nothing; a wide-gamut display; a
\* high-contrast, reduced-motion setup
NoMatch == [q \in Queries \cup {"reducedMotion"} |-> FALSE]

WideGamut == [NoMatch EXCEPT !["gamutP3"] = TRUE]

HighContrast ==
  [NoMatch EXCEPT !["more"] = TRUE, !["forcedColors"] = TRUE,
                  !["reducedMotion"] = TRUE]

\* the pages explored: a host and what its queries match at load
Pages ==
  { [host |-> Modern, media |-> WideGamut],
    [host |-> Modern, media |-> HighContrast],
    [host |-> Legacy, media |-> NoMatch],
    [host |-> Bare, media |-> NoMatch] }

\* the queries whose change events are explored
ChangingQueries == {"more", "gamutP3", "reducedMotion"}

\* performance.now() when start() runs, and the frame gaps explored
LoadTimes == {200}

FrameGaps == {4, 1080}

Seeds == 0 .. NumSeeds - 1

\* Math.random samples, 1e-3: the low end, a middle value, just under 1
USamples == <<0, 600, 999>>

\* the n-th Math.random() of a handler run seeded with seed (n from 0)
RandomAt(seed, n) ==
  USamples[((seed * 5 + n + (n \div 3) + 2 * (n \div 9) + (n \div 27)) % 3) + 1]

\* len px * pct / 100, in 1e-6 px
Part(len, pct) == MulDiv(len * Micro, pct, 100)

\* rand(min, max) for the sample u
rand(min, max, u) == min + MulDiv(max - min, u, 1000)


(* ------------------------------ sprites -------------------------------- *)

\* p.sprite === null
NoSprite ==
  [id |-> 0, kind |-> "null", dim |-> 0, draws |-> 0, blur |-> 0, boost |-> 0,
   colorA |-> <<0, 0, 0>>, colorB |-> <<0, 0, 0>>]

\* the canvases the petals of ps hold
SpriteIds(ps) == {ps[i].sprite.id : i \in DOMAIN ps} \ {0}

\* the identity of a canvas object allocated while those of used are alive
FreshId(used) ==
  CHOOSE n \in 1 .. Cardinality(used) + 1 :
    n \notin used /\ \A m \in 1 .. n - 1 : m \in used

getBlurPx(level) == levels[level + 1].blurPx

\* a blank size x size canvas: an OffscreenCanvas where the host has one,
\* else a detached <canvas> element
createSpriteCanvas(size, host, used) ==
  [id |-> FreshId(used),
   kind |-> IF host.offscreen THEN "OffscreenCanvas" ELSE "canvas",
   dim |-> size, draws |-> 0, blur |-> 0, boost |-> 0,
   colorA |-> <<0, 0, 0>>, colorB |-> <<0, 0, 0>>]

\* max(24, ceil(size * 3.2 + blurPx * 4)), in px
getSpriteDim(p, blurPx) ==
  Max(24, CeilDiv((p.size * 32) \div 10 + blurPx * 4 * (Micro \div 100), Micro))

\* renderPetalSprite allocating a canvas on every call
renderPetalSpriteAlwaysNew(p, level, boost, host, ctxOk, used) ==
  LET blurPx == getBlurPx(level)
      dim == getSpriteDim(p, blurPx)
      sprite == createSpriteCanvas(dim, host, used)
  IN IF ~ctxOk
       THEN [p EXCEPT !.sprite = NoSprite, !.spriteSize = 0]
       ELSE [p EXCEPT !.sprite = [sprite EXCEPT !.draws = @ + 1,
                                                !.blur = blurPx,
                                                !.boost = boost,
                                                !.colorA = p.colorA,
                                                !.colorB = p.colorB],
                      !.spriteSize = dim]

\* rasterize p into its sprite (draws counts the times a canvas was drawn
\* into).  A canvas of the right size is reused and
\* redrawn in place; otherwise one is allocated, and getContext("2d") on the
\* new canvas yields a context only when ctxOk (a canvas that already has a
\* 2d context always returns it).
renderPetalSprite(p, level, boost, host, ctxOk, used) ==
  LET blurPx == getBlurPx(level)
      dim == getSpriteDim(p, blurPx)
      reuse == p.sprite.id # 0 /\ p.sprite.dim = dim
      sprite == IF reuse THEN p.sprite ELSE createSpriteCanvas(dim, host, used)
  IN IF ~(reuse \/ ctxOk)
       THEN [p EXCEPT !.sprite = NoSprite, !.spriteSize = 0]
       ELSE [p EXCEPT !.sprite = [sprite EXCEPT !.draws = @ + 1,
                                                !.blur = blurPx,
                                                !.boost = boost,
                                                !.colorA = p.colorA,
                                                !.colorB = p.colorB],
                      !.spriteSize = dim]

(* --------------------------- petal visuals ----------------------------- *)

mixRgb(a, b, boost) ==
  [c \in 1 .. 3 |-> RoundDiv(a[c] * 100 + (b[c] - a[c]) * boost, 100)]

\* getPetalAlpha without the final clamp, its upper range ending at 0.98
getPetalAlphaWide(seed, visibilityBoost) ==
  LET boost == clamp(visibilityBoost, 0, 100)
      min == lerp(4800, 6200, boost, 100)
      max == lerp(7800, 9800, boost, 100)
  IN lerp(min, max, seed, 1000)

getPetalAlpha(seed, visibilityBoost) ==
  LET boost == clamp(visibilityBoost, 0, 100)
      min == lerp(4800, 6200, boost, 100)
      max == lerp(7800, 9200, boost, 100)
  IN clamp(lerp(min, max, seed, 1000), alphaFloor, alphaCeil)

getPetalColors(baseA, baseB, visibilityBoost) ==
  LET boost == clamp(visibilityBoost, 0, 100)
  IN [colorA |-> mixRgb(baseA, palette.targetA, boost),
      colorB |-> mixRgb(baseB, palette.targetB, boost)]

\* one petal of refreshPetalVisuals' loop
refreshPetal(p, level, boost, host, ctxOk, used) ==
  LET colors == getPetalColors(p.baseA, p.baseB, boost)
  IN renderPetalSprite([p EXCEPT !.colorA = colors.colorA,
                                 !.colorB = colors.colorB,
                                 !.alpha = getPetalAlpha(p.alphaSeed, boost)],
                       level, boost, host, ctxOk, used)

\* the loop of refreshPetalVisuals from petal i on.  (A loop's next round
\* is taken through a one-element set so that the state it starts from is
\* computed once.)
RECURSIVE refreshFrom(_, _, _, _, _, _)
refreshFrom(ps, i, level, boost, host, ctxOk) ==
  IF i > Len(ps) THEN ps
  ELSE CHOOSE out \in
         { refreshFrom(nxt, i + 1, level, boost, host, ctxOk) :
             nxt \in {[ps EXCEPT ![i] = refreshPetal(ps[i], level, boost, host,
                                                     ctxOk, SpriteIds(ps))]} } :
         TRUE

refreshPetalVisuals(ps, level, boost, host, ctxOk) ==
  CHOOSE out \in { refreshFrom(p0, 1, level, boost, host, ctxOk) : p0 \in {ps} } :
    TRUE

(* --------------------------- petal creation ---------------------------- *)

\* one iteration of makePetals' loop: the petal, and the Math.random calls
\* made so far.  w, h in px.
makePetal(seed, k, scatterEverywhere, w, h, level, boost, host, ctxOk, used) ==
  LET u(j) == RandomAt(seed, k + j)
      size == (rand(minSizeMilli, maxSizeMilli, u(0))
                 * rand(780, 1150, u(1)))
      sizeMilli == size \div 1000
      x == IF scatterEverywhere
             THEN rand(-Part(w, 5), Part(w, 105), u(2))
             ELSE rand(-Part(w, 25), Part(w, 35), u(2))
      y == IF scatterEverywhere
             THEN rand(-Part(h, 20), Part(h, 110), u(3))
             ELSE rand(-Part(h, 100), -size, u(3))
      vy == (rand(18000, 52000, u(4)) * sizeMilli) \div 24
      vx == (rand(3000, 11000, u(5)) * sizeMilli) \div 300
      rot == rand(0, 6283185, u(6))
      rotSpeed == (rand(-700, 700, u(7)) * sizeMilli) \div 24
      \* calls 8 .. 13: swayAmp, swaySpeed, swayPhase, flutterPhase,
      \* flutterSpeed, flutterAmp; calls 14 .. 25: the shape's 12 ratios
      three == u(26) < 450
      shape == [wScale |-> rand(820, 1180, u(14)),
                hScale |-> rand(900, 1220, u(15)),
                detail |-> rand(450, 1000, u(25)),
                veinCount |-> IF three THEN 3 ELSE IF u(27) < 700 THEN 2 ELSE 1]
      n == IF three THEN 27 ELSE 28
      tint == rand(0, 1000, u(n))
      alphaSeed == rand(0, 1000, u(n + 1))
      baseA == IF tint < 550 THEN palette.fillA[1]
               ELSE IF tint < 900 THEN palette.fillA[2] ELSE palette.fillA[3]
      baseB == IF tint < 750 THEN palette.fillB[1] ELSE palette.fillB[2]
      colors == getPetalColors(baseA, baseB, boost)
      petal == [x |-> x, y |-> y, vx |-> vx, vy |-> vy, size |-> size,
                rot |-> rot, rotSpeed |-> rotSpeed,
                baseA |-> baseA, baseB |-> baseB,
                colorA |-> colors.colorA, colorB |-> colors.colorB,
                alphaSeed |-> alphaSeed,
                alpha |-> getPetalAlpha(alphaSeed, boost),
                shape |-> shape, sprite |-> NoSprite, spriteSize |-> 0]
  IN [petal |-> renderPetalSprite(petal, level, boost, host, ctxOk, used),
      k |-> k + n + 2]

\* makePetals(count, scatterEverywhere): arr is the array built so far and
\* alive the canvases the existing petals hold
RECURSIVE makePetalsFrom(_, _, _, _, _, _, _, _, _, _, _)
makePetalsFrom(acc, count, seed, scatterEverywhere, w, h, level, boost, host, ctxOk, alive) ==
  IF Len(acc.petals) >= count THEN acc
  ELSE CHOOSE out \in
         { makePetalsFrom([petals |-> Append(acc.petals, r.petal), k |-> r.k],
                          count, seed, scatterEverywhere, w, h, level, boost,
                          host, ctxOk, alive) :
             r \in {makePetal(seed, acc.k, scatterEverywhere, w, h, level,
                              boost, host, ctxOk,
                              alive \cup SpriteIds(acc.petals))} } :
         TRUE

makePetals(count, seed, k, scatterEverywhere, w, h, level, boost, host, ctxOk, alive) ==
  CHOOSE out \in
    { makePetalsFrom([petals |-> <<>>, k |-> k], n, seed, scatterEverywhere,
                     w, h, level, boost, host, ctxOk, a) :
        n \in {count}, a \in {alive} } :
    TRUE

(* ------------------------------- state --------------------------------- *)

VARIABLES
  \* the host: its capabilities, what window and the media queries report,
  \* whether the canvas and its 2d context exist, whether a new sprite
  \* canvas yields a 2d context
  host, screen, media, surface, spriteCtx,
  \* state.reducedMotion, state.visibilityBoost
  reducedMotion, visibilityBoost,
  \* quality.level, quality.lastAdjust, perf.avgMs
  level, lastAdjust, avgMs,
  \* petals, dpr, w, h
  petals, dpr, w, h,
  \* rafId, lastT, the frame callbacks the host holds, the event listeners
  \* the script registered
  rafId, lastT, rafPending, listeners,
  \* the last frame: what it drew each petal with, whether it respawned it
  drawn,
  \* history: handler runs, frames, start() calls, the timestamp of the last
  \* preset change (-1: none), the handlers run since the load in order, and
  \* prevW and petals.length as the last resize event found them
  steps, frames, restarts, changeT, ops, before,
  \* an exception escaped the script
  raised

vars ==
  << host, screen, media, surface, spriteCtx, reducedMotion, visibilityBoost,
     level, lastAdjust, avgMs, petals, dpr, w, h, rafId, lastT, rafPending,
     listeners, drawn, steps, frames, restarts, changeT, ops, before,
     raised >>

\* the handler that ran last
lastOp == IF ops = << >> THEN "load" ELSE ops[Len(ops)]

(* ------------------------------- main.js -------------------------------- *)

VARIABLES
  \* lang, the lang attribute of <html>, the language toggle (its label
  \* text, aria-label and title) and the href of the two resume links
  lang, htmlLang, langBtn, resumeLinks,
  \* localStorage: the value under "lang" ("": none), and whether the host
  \* lets the script read and write it
  stored, storage,
  \* hoveredButtons, shimmerTimers (0: no entry), the buttons whose class
  \* list holds shimmer-active, and the timeouts the host has pending
  hoveredButtons, shimmerTimers, shimmerActive, timeouts,
  \* history: the first MaxEvents events main.js handled since the load
  events

uiVars ==
  << lang, htmlLang, langBtn, resumeLinks, stored, storage, hoveredButtons,
     shimmerTimers, shimmerActive, timeouts, events >>

Langs == {"ja", "en"}

\* RESUME_LINKS
RESUME_LINKS ==
  [l \in Langs |->
     IF l = "ja"
       THEN [tech |-> "./assets/resumes/JP/Tai_Tran_Software_Engineer_Resume_JP.pdf",
             nonTech |-> "./assets/resumes/JP/Tai_Tran_Non_Technical_Resume_JP.pdf"]
       ELSE [tech |-> "./assets/resumes/EN/Tai_Tran_Software_Engineer_Resume.pdf",
             nonTech |-> "./assets/resumes/EN/Tai_Tran_Non_Technical_Resume.pdf"]]

\* updateLangToggleButton(currentLang): the label and the aria-label / title
\* the toggle gets; the label is written as its escape sequence
updateLangToggleButton(currentLang) ==
  LET switchingToEnglish == currentLang = "ja"
      nextLabel == IF switchingToEnglish THEN "EN" ELSE "u65E5u672Cu8A9E"
      nextAriaLabel == IF switchingToEnglish THEN "Switch to English"
                       ELSE "Switch to Japanese"
  IN [label |-> nextLabel, ariaLabel |-> nextAriaLabel, title |-> nextAriaLabel]

\* storage: "ok", "readOnly" (setItem throws) or "blocked" (getItem and
\* setItem throw)
StorageModes == {"ok", "readOnly", "blocked"}

\* the try block choosing the language at load: the stored value, else the
\* lang attribute of <html>, else "ja"; a throwing getItem leaves "ja"
initialLang(st0, html0, mode) ==
  IF mode = "blocked" THEN "ja"
  ELSE IF st0 \in Langs THEN st0
  ELSE IF html0 \in Langs THEN html0
  ELSE "ja"

\* applyLanguage writing the toggle for the language it leaves
applyLanguageStaleToggle(nextLang, st, mode) ==
  [lang |-> nextLang, htmlLang |-> nextLang,
   langBtn |-> updateLangToggleButton(IF nextLang = "ja" THEN "en" ELSE "ja"),
   resumeLinks |-> RESUME_LINKS[nextLang],
   stored |-> IF mode = "ok" THEN nextLang ELSE st]

\* applyLanguage(nextLang) with st stored: what it leaves in lang, <html>,
\* the toggle, the resume links and the storage
applyLanguage(nextLang, st, mode) ==
  [lang |-> nextLang, htmlLang |-> nextLang,
   langBtn |-> updateLangToggleButton(nextLang),
   resumeLinks |-> RESUME_LINKS[nextLang],
   stored |-> IF mode = "ok" THEN nextLang ELSE st]

\* the .btn elements of the page
Buttons == {1, 2}

\* window.setTimeout's return value: an id no pending timeout has
setTimeoutId(ts) ==
  CHOOSE n \in 1 .. Cardinality(ts) + 1 :
    /\ \A t \in ts : t.id # n
    /\ \A k \in 1 .. n - 1 : \E t \in ts : t.id = k

\* startShimmer without its first line
startShimmerRestarting(s, btn) ==
  LET id == setTimeoutId(s.timeouts)
  IN [active |-> s.active \cup {btn},
      timers |-> [s.timers EXCEPT ![btn] = id],
      timeouts |-> s.timeouts \cup {[id |-> id, btn |-> btn]}]

\* startShimmer(btn) on s = [active, timers, timeouts]
startShimmer(s, btn) ==
  IF s.timers[btn] # 0 \/ btn \in s.active THEN s
  ELSE LET id == setTimeoutId(s.timeouts)
       IN [active |-> s.active \cup {btn},
           timers |-> [s.timers EXCEPT ![btn] = id],
           timeouts |-> s.timeouts \cup {[id |-> id, btn |-> btn]}]

\* the shimmer state startShimmer works on
Shimmer == [active |-> shimmerActive, timers |-> shimmerTimers, timeouts |-> timeouts]

\* the event e on button btn joins the history while there is room
noted(e, btn) ==
  IF Len(events) < MaxEvents THEN Append(events, [e |-> e, btn |-> btn]) ELSE events

\* the timeout callback keeping the sweep going whether hovered or not
timeoutAlwaysLoops(s, btn, hovered) == startShimmer(s, btn)

\* the tail of the timeout callback: if (hoveredButtons.has(btn)) startShimmer(btn)
timeoutLoop(s, btn, hovered) == IF btn \in hovered THEN startShimmer(s, btn) ELSE s

\* the mouseenter listener of btn
onMouseEnter(btn) ==
  \E s \in {startShimmer(Shimmer, btn)} :
    /\ hoveredButtons' = hoveredButtons \cup {btn}
    /\ shimmerActive' = s.active
    /\ shimmerTimers' = s.timers
    /\ timeouts' = s.timeouts
    /\ events' = noted("mouseenter", btn)
    /\ UNCHANGED << lang, htmlLang, langBtn, resumeLinks, stored, storage >>

\* the mouseleave listener of btn
onMouseLeave(btn) ==
  /\ hoveredButtons' = hoveredButtons \ {btn}
  /\ events' = noted("mouseleave", btn)
  /\ UNCHANGED << lang, htmlLang, langBtn, resumeLinks, stored, storage,
                  shimmerTimers, shimmerActive, timeouts >>

\* the focusin listener of btn
onFocusIn(btn) ==
  \E s \in {startShimmer(Shimmer, btn)} :
    /\ shimmerActive' = s.active
    /\ shimmerTimers' = s.timers
    /\ timeouts' = s.timeouts
    /\ events' = noted("focusin", btn)
    /\ UNCHANGED << lang, htmlLang, langBtn, resumeLinks, stored, storage,
                    hoveredButtons >>

\* the pending timeout t fires: startShimmer's timer callback
onTimeout(t) ==
  \E s \in {timeoutLoop([active |-> shimmerActive \ {t.btn},
                         timers |-> [shimmerTimers EXCEPT ![t.btn] = 0],
                         timeouts |-> timeouts \ {t}],
                        t.btn, hoveredButtons)} :
    /\ t \in timeouts
    /\ shimmerActive' = s.active
    /\ shimmerTimers' = s.timers
    /\ timeouts' = s.timeouts
    /\ events' = noted("timeout", t.btn)
    /\ UNCHANGED << lang, htmlLang, langBtn, resumeLinks, stored, storage,
                    hoveredButtons >>

\* the click listener of the language toggle
onLangClick ==
  \E a \in {applyLanguage(IF lang = "ja" THEN "en" ELSE "ja", stored, storage)} :
    /\ lang' = a.lang
    /\ htmlLang' = a.htmlLang
    /\ langBtn' = a.langBtn
    /\ resumeLinks' = a.resumeLinks
    /\ stored' = a.stored
    /\ events' = noted("click", 0)
    /\ UNCHANGED << storage, hoveredButtons, shimmerTimers, shimmerActive, timeouts >>

\* the host starts to answer localStorage calls in another mode (the user
\* changes the site's storage permission, the quota fills up)
onStorageChange(mode) ==
  /\ mode # storage
  /\ storage' = mode
  /\ events' = noted("storage", 0)
  /\ UNCHANGED << lang, htmlLang, langBtn, resumeLinks, stored,
                  hoveredButtons, shimmerTimers, shimmerActive, timeouts >>

\* main.js run once on a page whose storage holds st0 in mode mode and whose
\* <html> has lang html0: the language is chosen, the listeners are
\* registered and applyLanguage(lang) runs
loadMain(st0, html0, mode) ==
  LET a == applyLanguage(initialLang(st0, html0, mode), st0, mode)
  IN /\ lang = a.lang
     /\ htmlLang = a.htmlLang
     /\ langBtn = a.langBtn
     /\ resumeLinks = a.resumeLinks
     /\ stored = a.stored
     /\ storage = mode
     /\ hoveredButtons = {}
     /\ shimmerTimers = [b \in Buttons |-> 0]
     /\ shimmerActive = {}
     /\ timeouts = {}
     /\ events = << >>

(* ------------------------------- resize -------------------------------- *)

\* targetCount without the upper limit maxCount
targetCountNoMax(width, height, lvl) ==
  LET cs == levels[lvl + 1].countScale
      x1000 == MulDiv(baseCount * (width * height), cs * 10, refArea)
  IN Max((x1000 + 500) \div 1000, minCount)

\* targetCount without the lower limit minCount
targetCountNoMin(width, height, lvl) ==
  LET cs == levels[lvl + 1].countScale
      maxCount == Max(minCount, RoundDiv(maxCountCfg * cs, 100))
      x1000 == MulDiv(baseCount * (width * height), cs * 10, refArea)
  IN Min((x1000 + 500) \div 1000, maxCount)

\* clamp(round(baseCount * (area / (1100 * 700)) * countScale), minCount, maxCount)
targetCount(width, height, lvl) ==
  LET cs == levels[lvl + 1].countScale
      maxCount == Max(minCount, RoundDiv(maxCountCfg * cs, 100))
      \* 1000 * baseCount * (area / refArea) * countScale, rounded down
      x1000 == MulDiv(baseCount * (width * height), cs * 10, refArea)
  IN clamp((x1000 + 500) \div 1000, minCount, maxCount)

\* x * (w / prevW).  A product beyond 2000 px does not fit the model's
\* integers and is held at 2000 px: that is past w * 1.5 for every screen of
\* Screens, so the pull-back loop of the same resize() replaces it.
Far == 2000 * Micro

scaleX(x, width, prevW) ==
  IF x \div prevW >= Far \div width THEN Far
  ELSE IF x \div prevW <= -(Far \div width) THEN -Far
  ELSE MulDiv(x, width, prevW)

\* rescaleX scaling y by the same ratio
rescaleXY(ps, width, prevW) ==
  [i \in DOMAIN ps |-> [ps[i] EXCEPT !.x = scaleX(ps[i].x, width, prevW),
                                     !.y = scaleX(ps[i].y, width, prevW)]]

\* the loop "for (const p of petals) p.x *= sx", sx = w / prevW
rescaleX(ps, width, prevW) ==
  [i \in DOMAIN ps |-> [ps[i] EXCEPT !.x = scaleX(ps[i].x, width, prevW)]]

\* the loop pulling far-off petals back; k counts the Math.random calls
\* a petal counts as far off when x < -w * 0.5 or x > w * 1.5
farOff(p, width) == p.x < -Part(width, 50) \/ p.x > Part(width, 150)

RECURSIVE pullBackFrom(_, _, _, _)
pullBackFrom(acc, i, width, seed) ==
  IF i > Len(acc.petals) THEN acc
  ELSE CHOOSE out \in
         { pullBackFrom(nxt, i + 1, width, seed) :
             nxt \in { IF farOff(acc.petals[i], width)
                         THEN [petals |->
                                 [acc.petals EXCEPT ![i].x =
                                    rand(-Part(width, 25), Part(width, 35),
                                         RandomAt(seed, acc.k))],
                               k |-> acc.k + 1]
                         ELSE acc } } :
         TRUE

\* resize() without the re-render after a blur change
renderNone(ps, i, lvl, boost, hst, ctxOk) == ps

\* the loop "for (const p of petals) renderPetalSprite(p)" from petal i on
RECURSIVE renderFrom(_, _, _, _, _, _)
renderFrom(ps, i, lvl, boost, hst, ctxOk) ==
  IF i > Len(ps) THEN ps
  ELSE CHOOSE out \in
         { renderFrom(nxt, i + 1, lvl, boost, hst, ctxOk) :
             nxt \in {[ps EXCEPT ![i] = renderPetalSprite(ps[i], lvl, boost, hst,
                                                          ctxOk, SpriteIds(ps))]} } :
         TRUE

\* effectiveDpr with no lower limit
effectiveDprNoFloor(scr, lvl) ==
  Min(IF scr.devicePixelRatio = 0 THEN 100 ELSE scr.devicePixelRatio,
      levels[lvl + 1].dprMax)

\* clamp(window.devicePixelRatio || 1, 1, qualitySettings.dprMax), 1e-2
effectiveDpr(scr, lvl) ==
  clamp(IF scr.devicePixelRatio = 0 THEN 100 ELSE scr.devicePixelRatio, 100,
        levels[lvl + 1].dprMax)

\* resize() reseeding the field whatever its options
shouldPreserveNever(preservePetals, n, prevW) == n < 0

\* shouldPreserve: preservePetals && petals.length > 0 && prevW > 0
shouldPreserve(preservePetals, n, prevW) == preservePetals /\ n > 0 /\ prevW > 0

\* resize(options) run on the state st = [petals, w, h, dpr, level, boost];
\* prevBlurPx = -1 stands for null
resize(st, preservePetals, prevBlurPx, scr, hst, ctxOk, seed) ==
  LET prevW == st.w
      qualitySettings == levels[st.level + 1]
      newDpr == effectiveDpr(scr, st.level)
      nw == Max(1, scr.innerWidth)
      nh == Max(1, scr.innerHeight)
      target == targetCount(nw, nh, st.level)
      sized == [st EXCEPT !.w = nw, !.h = nh, !.dpr = newDpr]
      n == Len(st.petals)
      nextBlurPx == getBlurPx(st.level)
  IN IF ~shouldPreserve(preservePetals, n, prevW)
       THEN CHOOSE out \in
              { [sized EXCEPT !.petals = made.petals, !.k = made.k] :
                  made \in {makePetals(target, seed, 0, TRUE, nw, nh, st.level,
                                       st.boost, hst, ctxOk,
                                       SpriteIds(st.petals))} } :
              TRUE
       ELSE CHOOSE out \in
              { [sized EXCEPT
                  !.petals = IF prevBlurPx # -1 /\ nextBlurPx # prevBlurPx
                               THEN renderFrom(pulled.petals, 1, st.level,
                                               st.boost, hst, ctxOk)
                               ELSE pulled.petals,
                  !.k = pulled.k] :
                  pulled \in
                    { pullBackFrom(
                        [petals |-> IF prevW > 0 /\ nw # prevW
                                      THEN rescaleX(matched.petals, nw, prevW)
                                      ELSE matched.petals,
                         k |-> matched.k],
                        1, nw, seed) :
                        matched \in
                          { IF n < target
                              THEN LET added ==
                                         makePetals(target - n, seed, 0, FALSE,
                                                    nw, nh, st.level, st.boost,
                                                    hst, ctxOk,
                                                    SpriteIds(st.petals))
                                   IN [petals |-> st.petals \o added.petals,
                                       k |-> added.k]
                              ELSE [petals |-> SubSeq(st.petals, 1, target),
                                    k |-> 0] } } } :
              TRUE

(* --------------------------- quality control --------------------------- *)

\* applyQualityLevel(nextLevel) run on the state st
applyQualityLevel(st, nextLevel, scr, hst, ctxOk, seed) ==
  LET clamped == clamp(nextLevel, 0, Len(levels) - 1)
  IN IF clamped = st.level THEN st
     ELSE resize([st EXCEPT !.level = clamped], TRUE, getBlurPx(st.level),
                 scr, hst, ctxOk, seed)

\* maybeAdjustQuality with the slow and fast tests exchanged
maybeAdjustQualitySwapped(st, nowMs, scr, hst, ctxOk, seed) ==
  IF nowMs - st.lastAdjust < cooldownMs THEN st
  ELSE LET s1 == [st EXCEPT !.lastAdjust = nowMs]
       IN IF s1.avgMs < fastAvg /\ s1.level < Len(levels) - 1
            THEN applyQualityLevel(s1, s1.level + 1, scr, hst, ctxOk, seed)
          ELSE IF s1.avgMs > slowAvg /\ s1.level > 0
            THEN applyQualityLevel(s1, s1.level - 1, scr, hst, ctxOk, seed)
          ELSE s1

\* maybeAdjustQuality without the cooldown
maybeAdjustQualityNoCooldown(st, nowMs, scr, hst, ctxOk, seed) ==
  LET s1 == [st EXCEPT !.lastAdjust = nowMs]
  IN IF s1.avgMs > slowAvg /\ s1.level < Len(levels) - 1
       THEN applyQualityLevel(s1, s1.level + 1, scr, hst, ctxOk, seed)
     ELSE IF s1.avgMs < fastAvg /\ s1.level > 0
       THEN applyQualityLevel(s1, s1.level - 1, scr, hst, ctxOk, seed)
     ELSE s1

\* maybeAdjustQuality(nowMs) on st, which carries lastAdjust and avgMs
maybeAdjustQuality(st, nowMs, scr, hst, ctxOk, seed) ==
  IF nowMs - st.lastAdjust < cooldownMs THEN st
  ELSE LET s1 == [st EXCEPT !.lastAdjust = nowMs]
       IN IF s1.avgMs > slowAvg /\ s1.level < Len(levels) - 1
            THEN applyQualityLevel(s1, s1.level + 1, scr, hst, ctxOk, seed)
          ELSE IF s1.avgMs < fastAvg /\ s1.level > 0
            THEN applyQualityLevel(s1, s1.level - 1, scr, hst, ctxOk, seed)
          ELSE s1

(* -------------------------------- tick ---------------------------------- *)

\* 1000 * Math.sin(t * 0.00018): the argument folded into [0, pi/2] and the
\* series x - x^3/6 + x^5/120 - x^7/5040 in 1e-3 rad
sinMilli(t) ==
  LET a == (180 * t) % 6283185
      neg == a > 3141592
      b == IF neg THEN a - 3141593 ELSE a
      c == IF b > 1570796 THEN 3141593 - b ELSE b
      y == c \div 1000
      y2 == (y * y) \div 1000
      y3 == (y2 * y) \div 1000
      y5 == (y3 * y2) \div 1000
      y7 == (y5 * y2) \div 1000
      s == y - (y3 \div 6) + (y5 \div 120) - (y7 \div 5040)
  IN IF neg THEN -s ELSE s

\* (windBias + sin(t * 0.00018) * windGustiness) * 20 * windStrength, 1e-6
windAt(t) ==
  MulDiv(windBiasMicro + MulDiv(windGustMicro, sinMilli(t) + 1000, 1000)
           - windGustMicro,
         20 * windStrengthMilli, 1000)

\* the motion scale without config.motion
motionScaleOfNoConfig(reduced) == IF reduced THEN reducedMilli ELSE 1000

\* (state.reducedMotion ? 0.08 : 1) * config.motion, in 1e-3
motionScaleOf(reduced) ==
  ((IF reduced THEN reducedMilli ELSE 1000) * motionMilli) \div 1000

\* v * dt * motionScale for v in 1e-6 units/s, dt in ms, motionScale in 1e-3
advance(v, dtMs, motionScale) ==
  MulDiv(MulDiv(v, dtMs, 1000), motionScale, 1000)

\* offScreen testing the bottom edge only
offScreenBottomOnly(p, width, height) ==
  p.y > height * Micro + p.size * 2

\* the respawn test of tick: off the bottom or off the right edge
offScreen(p, width, height) ==
  p.y > height * Micro + p.size * 2 \/ p.x > width * Micro + p.size * 4

\* tickPetal with a respawn that also draws a new fall speed
tickPetalNewSpeed(p, dtMs, motionScale, wind, width, height, seed, k) ==
  LET moved == [p EXCEPT
                 !.y = p.y + advance(p.vy, dtMs, motionScale),
                 !.rot = p.rot + advance(p.rotSpeed, dtMs, motionScale),
                 !.x = p.x + advance((p.vx + MulDiv(wind, windScaleMilli, 1000))
                                       * 60, dtMs, motionScale)]
  IN IF offScreen(moved, width, height)
       THEN [petal |-> [moved EXCEPT
                         !.y = rand(-Part(height, 25), -((p.size * 3) \div 2),
                                    RandomAt(seed, k)),
                         !.x = rand(-Part(width, 25), Part(width, 35),
                                    RandomAt(seed, k + 1)),
                         !.vy = (rand(18000, 52000, RandomAt(seed, k + 2))
                                   * (p.size \div 1000)) \div 24],
             k |-> k + 3, respawned |-> TRUE]
       ELSE [petal |-> moved, k |-> k, respawned |-> FALSE]

\* one petal of tick's loop: physics, then the respawn; k counts Math.random
tickPetal(p, dtMs, motionScale, wind, width, height, seed, k) ==
  LET moved == [p EXCEPT
                 !.y = p.y + advance(p.vy, dtMs, motionScale),
                 !.rot = p.rot + advance(p.rotSpeed, dtMs, motionScale),
                 !.x = p.x + advance((p.vx + MulDiv(wind, windScaleMilli, 1000))
                                       * 60, dtMs, motionScale)]
  IN IF offScreen(moved, width, height)
       THEN [petal |-> [moved EXCEPT
                         !.y = rand(-Part(height, 25), -((p.size * 3) \div 2),
                                    RandomAt(seed, k)),
                         !.x = rand(-Part(width, 25), Part(width, 35),
                                    RandomAt(seed, k + 1))],
             k |-> k + 2, respawned |-> TRUE]
       ELSE [petal |-> moved, k |-> k, respawned |-> FALSE]

RECURSIVE tickFrom(_, _, _, _, _, _, _, _)
tickFrom(acc, i, dtMs, motionScale, wind, width, height, seed) ==
  IF i > Len(acc.petals) THEN acc
  ELSE CHOOSE out \in
         { tickFrom([petals |-> [acc.petals EXCEPT ![i] = r.petal], k |-> r.k,
                     respawned |-> IF r.respawned THEN acc.respawned \cup {i}
                                   ELSE acc.respawned],
                    i + 1, dtMs, motionScale, wind, width, height, seed) :
             r \in {tickPetal(acc.petals[i], dtMs, motionScale, wind, width,
                              height, seed, acc.k)} } :
         TRUE

\* tick drawing every petal from its sprite
drawPathSpriteOnly(p) == "sprite"

\* what tick draws a petal with: the cached sprite, or the vector path
drawPath(p) == IF p.sprite.id # 0 /\ p.spriteSize # 0 THEN "sprite" ELSE "vector"

\* the script's mutable state, as the handlers' operators take it
Cur ==
  [petals |-> petals, w |-> w, h |-> h, dpr |-> dpr, level |-> level,
   boost |-> visibilityBoost, lastAdjust |-> lastAdjust, avgMs |-> avgMs,
   k |-> 0]

\* perf.avgMs smoothed over the delta time the physics uses
smoothClamped(avg, frameMs) == (avg * 9 + Min(maxDtMs, frameMs) * 1000) \div 10

\* perf.avgMs * 0.9 + frameMs * 0.1, in 1e-3 ms
smooth(avg, frameMs) == (avg * 9 + frameMs * 1000) \div 10

\* tick(t), t = lastT + gap, run for the pending callback id
tick(id, gap, seed) ==
  LET t == lastT + gap
      frameMs == t - lastT
      dtMs == Min(maxDtMs, frameMs)
      measured == [Cur EXCEPT !.avgMs = smooth(avgMs, frameMs)]
  IN \E st \in {maybeAdjustQuality(measured, t, screen, host, spriteCtx, seed)} :
     \E after \in {tickFrom([petals |-> st.petals, k |-> st.k,
                             respawned |-> {}], 1, dtMs,
                            motionScaleOf(reducedMotion), windAt(t), st.w, st.h,
                            seed)} :
     /\ id \in rafPending
     /\ rafId' = rafId + 1
     /\ rafPending' = (rafPending \ {id}) \cup {rafId + 1}
     /\ lastT' = t
     /\ avgMs' = st.avgMs
     /\ lastAdjust' = st.lastAdjust
     /\ level' = st.level
     /\ dpr' = st.dpr
     /\ w' = st.w
     /\ h' = st.h
     /\ petals' = after.petals
     /\ drawn' = [i \in DOMAIN after.petals |->
                   [path |-> drawPath(after.petals[i]),
                    respawned |-> i \in after.respawned]]
     /\ changeT' = IF st.level # level THEN t ELSE changeT
     /\ steps' = steps + 1
     /\ frames' = frames + 1
     /\ ops' = Append(ops, "tick")
     /\ UNCHANGED << host, screen, media, surface, spriteCtx, reducedMotion,
                     visibilityBoost, listeners, restarts, before, raised >>
     /\ UNCHANGED uiVars

(* ------------------------- preference signals -------------------------- *)

\* hasQuery taking every query for present: a missing query reads as one
\* that does not match
hasQueryAssumed(hst) == hst.matchMedia \in {"none", "static", "legacy", "modern"}

\* window.matchMedia?.(q): defined unless the host has no matchMedia
hasQuery(hst) == hst.matchMedia # "none"

\* updateVisibilityBoost's sum without the decreased-contrast term
boostOfNoLess(hst, m) ==
  LET on(q) == hasQuery(hst) /\ m[q]
      lowGamut == IF hasQuery(hst) THEN ~m["gamutP3"] ELSE FALSE
  IN clamp((IF on("more") THEN 45 ELSE 0)
             + (IF on("forcedColors") THEN 50 ELSE 0)
             + (IF on("reduceTransparency") THEN 25 ELSE 0)
             + (IF lowGamut THEN 20 ELSE 0),
           0, 100)

\* updateVisibilityBoost's sum with forced colors weighing 0.55
boostOfHeavyForced(hst, m) ==
  LET on(q) == hasQuery(hst) /\ m[q]
      lowGamut == IF hasQuery(hst) THEN ~m["gamutP3"] ELSE FALSE
  IN clamp((IF on("more") THEN 45 ELSE 0)
             + (IF on("forcedColors") THEN 55 ELSE 0)
             + (IF on("reduceTransparency") THEN 25 ELSE 0)
             + (IF lowGamut THEN 20 ELSE 0)
             - (IF on("less") THEN 20 ELSE 0),
           0, 100)

\* the boost updateVisibilityBoost computes from the queries, 1e-2
boostOf(hst, m) ==
  LET on(q) == hasQuery(hst) /\ m[q]
      lowGamut == IF hasQuery(hst) THEN ~m["gamutP3"] ELSE FALSE
  IN clamp((IF on("more") THEN 45 ELSE 0)
             + (IF on("forcedColors") THEN 50 ELSE 0)
             + (IF on("reduceTransparency") THEN 25 ELSE 0)
             + (IF lowGamut THEN 20 ELSE 0)
             - (IF on("less") THEN 20 ELSE 0),
           0, 100)

\* updateVisibilityBoost() on st with the queries matching m
updateVisibilityBoost(st, hst, m, ctxOk) ==
  LET boost == boostOf(hst, m)
  IN IF boost = st.boost THEN st
     ELSE [st EXCEPT !.boost = boost,
                     !.petals = refreshPetalVisuals(st.petals, st.level, boost,
                                                    hst, ctxOk)]

\* the listeners the script registers while it loads: the reduced-motion
\* one needs addEventListener, listenMedia falls back to addListener
listenersOf(hst) ==
  {"resize"}
    \cup (IF hst.matchMedia = "modern" THEN {"reducedMotion"} ELSE {})
    \cup (IF hst.matchMedia \in {"modern", "legacy"} THEN Queries ELSE {})

(* ------------------------------- handlers ------------------------------ *)

\* the startup guard without the test of the context
startupGuardCanvasOnly(sf) == sf # "noCanvas"

\* the startup guard: the script goes on only with a canvas element that
\* gave it a 2d context
startupGuard(sf) == sf = "ok"

\* the window's resize listener: resize({ preservePetals: true })
onResize(scr, seed) ==
  \E st \in {IF "resize" \in listeners /\ ~raised
                THEN resize(Cur, TRUE, -1, scr, host, spriteCtx, seed)
                ELSE Cur} :
     /\ screen' = scr
     /\ petals' = st.petals
     /\ w' = st.w
     /\ h' = st.h
     /\ dpr' = st.dpr
     /\ steps' = steps + 1
     /\ ops' = Append(ops, "resize")
     /\ before' = [w |-> w, n |-> Len(petals)]
     /\ UNCHANGED << host, media, surface, spriteCtx, reducedMotion,
                     visibilityBoost, level, lastAdjust, avgMs, rafId, lastT,
                     rafPending, listeners, drawn, frames, restarts, changeT,
                     raised >>
     /\ UNCHANGED uiVars

\* the query q changes what it matches; its change listener, if the script
\* registered one, runs
onMediaChange(q) ==
  LET m == [media EXCEPT ![q] = ~media[q]]
  IN \E st \in {IF q \in Queries /\ q \in listeners
                  THEN updateVisibilityBoost(Cur, host, m, spriteCtx) ELSE Cur} :
     /\ hasQuery(host)
     /\ media' = m
     /\ reducedMotion' = IF q = "reducedMotion" /\ q \in listeners
                           THEN m[q] ELSE reducedMotion
     /\ visibilityBoost' = st.boost
     /\ petals' = st.petals
     /\ steps' = steps + 1
     /\ ops' = Append(ops, "media")
     /\ UNCHANGED << host, screen, surface, spriteCtx, level, lastAdjust, avgMs,
                     dpr, w, h, rafId, lastT, rafPending, listeners, drawn,
                     frames, restarts, changeT, before, raised >>
     /\ UNCHANGED uiVars

\* the host starts or stops handing out 2d contexts for new sprite canvases
onSpriteCtxChange ==
  /\ spriteCtx' = ~spriteCtx
  /\ steps' = steps + 1
  /\ ops' = Append(ops, "ctx")
  /\ UNCHANGED << host, screen, media, surface, reducedMotion, visibilityBoost,
                  level, lastAdjust, avgMs, petals, dpr, w, h, rafId, lastT,
                  rafPending, listeners, drawn, frames, restarts, changeT,
                  before, raised >>
  /\ UNCHANGED uiVars

\* start() without cancelAnimationFrame(rafId)
startNoCancel(delay) ==
  /\ startupGuard(surface) /\ ~raised
  /\ rafPending' = rafPending \cup {rafId + 1}
  /\ lastT' = lastT + delay
  /\ rafId' = rafId + 1
  /\ steps' = steps + 1
  /\ restarts' = restarts + 1
  /\ ops' = Append(ops, "start")
  /\ UNCHANGED << host, screen, media, surface, spriteCtx, reducedMotion,
                  visibilityBoost, level, lastAdjust, avgMs, petals, dpr, w, h,
                  listeners, drawn, frames, changeT, before, raised >>
  /\ UNCHANGED uiVars

\* start(), called again delay ms after the last frame
start(delay) ==
  /\ startupGuard(surface) /\ ~raised
  /\ rafPending' = (rafPending \ {rafId}) \cup {rafId + 1}
  /\ lastT' = lastT + delay
  /\ rafId' = rafId + 1
  /\ steps' = steps + 1
  /\ restarts' = restarts + 1
  /\ ops' = Append(ops, "start")
  /\ UNCHANGED << host, screen, media, surface, spriteCtx, reducedMotion,
                  visibilityBoost, level, lastAdjust, avgMs, petals, dpr, w, h,
                  listeners, drawn, frames, changeT, before, raised >>
  /\ UNCHANGED uiVars

(* -------------------------------- load ---------------------------------- *)

\* the script's top level, run once: the startup guard, the listeners,
\* updateVisibilityBoost(), resize(), start().  A script that went on without
\* a context would throw in resize(), at ctx.setTransform, with its listeners
\* registered.
load(page, scr, sf, ctxOk, seed, now) ==
    LET hst == page.host
        m == page.media
        boot == [petals |-> <<>>, w |-> 0, h |-> 0, dpr |-> 100, level |-> 0,
                 boost |-> 0, lastAdjust |-> 0, avgMs |-> initAvg, k |-> 0]
        boosted == updateVisibilityBoost(boot, hst, m, ctxOk)
        pass == startupGuard(sf)
        thrown == pass /\ sf # "ok"
        st == IF pass /\ ~thrown
                THEN resize(boosted, FALSE, -1, scr, hst, ctxOk, seed)
              ELSE IF thrown THEN boosted
              ELSE boot
    IN /\ host = hst
       /\ screen = scr
       /\ media = m
       /\ surface = sf
       /\ spriteCtx = ctxOk
       /\ reducedMotion = (pass /\ hasQuery(hst) /\ m["reducedMotion"])
       /\ visibilityBoost = st.boost
       /\ level = st.level
       /\ lastAdjust = st.lastAdjust
       /\ avgMs = st.avgMs
       /\ petals = st.petals
       /\ dpr = st.dpr
       /\ w = st.w
       /\ h = st.h
       /\ rafId = IF pass /\ ~thrown THEN 1 ELSE 0
       /\ lastT = IF pass THEN now ELSE 0
       /\ rafPending = IF pass /\ ~thrown THEN {1} ELSE {}
       /\ listeners = IF pass THEN listenersOf(hst) ELSE {}
       /\ drawn = <<>>
       /\ steps = 0
       /\ frames = 0
       /\ restarts = 0
       /\ changeT = -1
       /\ ops = << >>
       /\ before = [w |-> 0, n |-> 0]
       /\ raised = thrown

Init ==
  \E page \in Pages, scr \in Screens,
     sf \in {"ok", "noCanvas", "noContext"}, ctxOk \in BOOLEAN,
     seed \in Seeds, now \in LoadTimes :
    /\ load(page, scr, sf, ctxOk, seed, now)
    /\ loadMain("", "ja", "ok")

(* ---------------------------- specifications --------------------------- *)

Tick ==
  \E id \in rafPending, gap \in FrameGaps, seed \in Seeds :
    steps < MaxSteps /\ tick(id, gap, seed)

Resize ==
  \E scr \in Screens, seed \in Seeds : steps < MaxSteps /\ onResize(scr, seed)

MediaChange ==
  \E q \in ChangingQueries : steps < MaxSteps /\ onMediaChange(q)

SpriteCtxChange == steps < MaxSteps /\ onSpriteCtxChange

Next == Tick \/ Resize \/ MediaChange \/ SpriteCtxChange

\* every interleaving of MaxSteps frames, resizes and preference changes
Spec == Init /\ [][Next]_vars

\* one page on one host, frames only, long enough for the preset to go down
\* and come back
InitQuality ==
  /\ Init
  /\ host = Modern
  /\ screen.innerWidth = 700
  /\ media = WideGamut
  /\ surface = "ok"
  /\ spriteCtx

LongTick ==
  \E id \in rafPending, gap \in FrameGaps, seed \in Seeds :
    frames < MaxFrames /\ lastT + gap <= MaxT /\ tick(id, gap, seed)

SpecQuality == InitQuality /\ [][LongTick]_vars

\* frames and further start() calls
Restart ==
  \E delay \in FrameGaps : restarts < MaxRestarts /\ start(delay)

LoopTick ==
  \E id \in rafPending, gap \in FrameGaps, seed \in Seeds :
    frames < MaxRestartFrames /\ tick(id, gap, seed)

SpecRestart == InitQuality /\ [][LoopTick \/ Restart]_vars

\* every host with every combination of matching queries at load, then
\* changes of any query
Hosts == {Modern, Legacy, Static, Bare}

AllMedia == [Queries \cup {"reducedMotion"} -> BOOLEAN]

InitPrefs ==
  \E hst \in Hosts, m \in AllMedia, now \in LoadTimes :
    /\ load([host |-> hst, media |-> m],
            [innerWidth |-> 300, innerHeight |-> 300, devicePixelRatio |-> 300],
            "ok", TRUE, 0, now)
    /\ loadMain("", "ja", "ok")

PrefChange ==
  \E q \in Queries \cup {"reducedMotion"} :
    steps < MaxSteps /\ onMediaChange(q)

SpecPrefs == InitPrefs /\ [][PrefChange]_vars

\* a desktop window (49, 40 and 30 petals at the three presets) and a small
\* one; frames and resize events between the two
LargeScreens ==
  { [innerWidth |-> 1000, innerHeight |-> 900, devicePixelRatio |-> 200],
    [innerWidth |-> 700, innerHeight |-> 330, devicePixelRatio |-> 150] }

InitLarge ==
  \E page \in Pages, scr \in LargeScreens, seed \in Seeds, now \in LoadTimes :
    /\ load(page, scr, "ok", TRUE, seed, now)
    /\ loadMain("", "ja", "ok")

LargeTick ==
  \E id \in rafPending, gap \in FrameGaps, seed \in Seeds :
    steps < MaxSteps /\ tick(id, gap, seed)

LargeResize ==
  \E scr \in LargeScreens, seed \in Seeds :
    steps < MaxSteps /\ onResize(scr, seed)

SpecLarge == InitLarge /\ [][LargeTick \/ LargeResize]_vars

\* frames only, some of them after a stall of 1200 ms or more
StallGaps == {4, 1200, 5000}

StallTick ==
  \E id \in rafPending, gap \in StallGaps, seed \in Seeds :
    frames < MaxStallFrames /\ tick(id, gap, seed)

SpecStall == InitQuality /\ [][StallTick]_vars

\* main.js alone, on a page that has no petals canvas (petals.js stops at
\* its startup guard): pointer and focus events on the buttons in any
\* order, and the timeouts firing in between
NoCanvasPage ==
  load([host |-> Modern, media |-> NoMatch],
       [innerWidth |-> 700, innerHeight |-> 330, devicePixelRatio |-> 150],
       "noCanvas", TRUE, 0, 0)

InitShimmer == NoCanvasPage /\ loadMain("", "ja", "ok")

MouseEnter ==
  \E btn \in Buttons :
    Len(events) < MaxEvents /\ onMouseEnter(btn) /\ UNCHANGED vars

MouseLeave ==
  \E btn \in Buttons :
    Len(events) < MaxEvents /\ onMouseLeave(btn) /\ UNCHANGED vars

FocusIn ==
  \E btn \in Buttons :
    Len(events) < MaxEvents /\ onFocusIn(btn) /\ UNCHANGED vars

Timeout == \E t \in timeouts : onTimeout(t) /\ UNCHANGED vars

NextShimmer == MouseEnter \/ MouseLeave \/ FocusIn \/ Timeout

allVars == << vars, uiVars >>

SpecShimmer == InitShimmer /\ [][NextShimmer]_allVars

\* the same with every pending timeout firing in the end
SpecShimmerLive == SpecShimmer /\ WF_allVars(Timeout)

\* main.js alone: every storage mode, stored value and <html> language at
\* load, then clicks on the language toggle while the host changes how it
\* answers storage calls
StoredValues == {"", "ja", "en", "fr"}

HtmlLangs == {"ja", "en", "en-US"}

InitLang ==
  /\ NoCanvasPage
  /\ \E st0 \in StoredValues, html0 \in HtmlLangs, mode \in StorageModes :
       loadMain(st0, html0, mode)

LangClick == Len(events) < MaxEvents /\ onLangClick /\ UNCHANGED vars

StorageChange ==
  \E mode \in StorageModes :
    Len(events) < MaxEvents /\ onStorageChange(mode) /\ UNCHANGED vars

SpecLang == InitLang /\ [][LangClick \/ StorageChange]_allVars

(* ----------------------------- properties ------------------------------ *)

\* C1: every change of quality.level moves it by exactly one position inside
\* 0 .. 2, and a change comes at least 1200 ms of frame time after the
\* change before it.
C1_PresetStepsRateLimited ==
  [][level' # level =>
       /\ level' \in 0 .. 2
       /\ (level' = level + 1 \/ level' = level - 1)
       /\ (changeT # -1 => lastT' - changeT >= 1200)]_vars

\* C1: the preset has changed twice, down to the lowest-quality preset
C1_Witness == level = 2 /\ changeT >= 0

\* C2: on a frame that comes 1200 ms or more after the last evaluation, the
\* preset goes one step down in quality when the smoothed cost is above
\* 30 ms and it is not the lowest, one step up when the cost is below 18 ms
\* and it is not the highest, and stays otherwise.
C2_QualityDecision ==
  [][(frames' = frames + 1 /\ lastT' - lastAdjust >= 1200) =>
       /\ (avgMs' > 30000 /\ level < 2) => level' = level + 1
       /\ (avgMs' < 18000 /\ level > 0) => level' = level - 1
       /\ ((avgMs' >= 18000 /\ avgMs' <= 30000)
             \/ (avgMs' > 30000 /\ level = 2)
             \/ (avgMs' < 18000 /\ level = 0)) => level' = level]_vars

\* C2: the preset went down and, after the cost recovered, back up
C2_Witness == level = 0 /\ changeT > 1280 /\ avgMs < 18000

\* C3: when a tick has completed, every particle has y <= h + 2 * size and
\* x <= w + 4 * size.
C3_InsideAfterTick ==
  lastOp = "tick" =>
    \A i \in DOMAIN petals :
      /\ petals[i].y <= h * Micro + 2 * petals[i].size
      /\ petals[i].x <= w * Micro + 4 * petals[i].size

\* C3: a tick that found a particle past the bottom or right bound and
\* respawned it
C3_Witness == lastOp = "tick" /\ \E i \in DOMAIN drawn : drawn[i].respawned

AlphaSeeds == {USamples[j] : j \in DOMAIN USamples}

\* C5: in every reachable state every particle's alpha lies within
\* [0.42, 0.95]; and the alpha any seed gives lies within these bounds under
\* every visibility boost 0.00, 0.01 .. 1.00 (a fact about getPetalAlpha
\* alone, evaluated in the load states).
C5_AlphaBounds ==
  /\ \A i \in DOMAIN petals :
       /\ petals[i].alpha >= 4200
       /\ petals[i].alpha <= 9500
       /\ petals[i].alphaSeed \in AlphaSeeds
  /\ lastOp = "load" =>
       \A s \in AlphaSeeds, b \in 0 .. 100 :
         getPetalAlpha(s, b) >= 4200 /\ getPetalAlpha(s, b) <= 9500

\* C5: a preference change raised the boost and the alphas were recomputed,
\* one of them from the largest seed
C5_Witness ==
  /\ lastOp = "media"
  /\ visibilityBoost > 0
  /\ \E i \in DOMAIN petals :
       /\ petals[i].alphaSeed = 999
       /\ petals[i].alpha = getPetalAlpha(999, visibilityBoost)
       /\ petals[i].alpha > getPetalAlpha(999, 0)

\* C6: between handlers, every particle that holds a sprite holds one that
\* was last rasterized with the active preset's blur radius, the particle's
\* current display colors and the current visibility boost, and its
\* spriteSize is max(24, ceil(size * 3.2 + blur * 4)) for that blur, which is
\* also the side of the bitmap.
C6_SpriteUpToDate ==
  \A i \in DOMAIN petals :
    petals[i].sprite.id # 0 =>
      /\ petals[i].sprite.blur = levels[level + 1].blurPx
      /\ petals[i].sprite.boost = visibilityBoost
      /\ petals[i].sprite.colorA = petals[i].colorA
      /\ petals[i].sprite.colorB = petals[i].colorB
      /\ petals[i].spriteSize =
           Max(24, CeilDiv((petals[i].size * 32) \div 10
                             + levels[level + 1].blurPx * 40000, Micro))
      /\ petals[i].sprite.dim = petals[i].spriteSize

\* C6: sprites redrawn by a preset change and then by a visibility-boost
\* change
C6_Witness ==
  /\ level = 1
  /\ ops = <<"tick", "media">>
  /\ \E i \in DOMAIN petals : petals[i].sprite.draws = 3

\* C7 (amended): every bitmap is held by exactly one particle.  When a
\* particle's sprite is rasterized again, a bitmap whose side still fits is
\* kept and redrawn in place; the particle gets a newly allocated bitmap
\* only when the side it needs has changed.
C7_ReuseOrReplace ==
  /\ [](\A i, j \in DOMAIN petals :
          (i # j /\ petals[i].sprite.id # 0) =>
            petals[i].sprite.id # petals[j].sprite.id)
  /\ [][\A i \in DOMAIN petals \cap DOMAIN petals' :
          (petals[i].sprite.id # 0 /\ petals'[i].sprite.id # 0) =>
            IF petals'[i].sprite.dim = petals[i].sprite.dim
              THEN /\ petals'[i].sprite.id = petals[i].sprite.id
                   /\ petals'[i].sprite.draws >= petals[i].sprite.draws
              ELSE /\ petals'[i].sprite.id # petals[i].sprite.id
                   /\ petals'[i].sprite.draws = 1]_vars

\* C7: a visibility-boost change has redrawn a particle's bitmap in place
C7_Witness ==
  /\ lastOp = "media"
  /\ \E i \in DOMAIN petals :
       petals[i].sprite.draws >= 2 /\ petals[i].sprite.boost = visibilityBoost

\* C7 as stated: no bitmap a particle holds has been drawn into more than
\* once
C7_Original ==
  \A i \in DOMAIN petals :
    petals[i].sprite.id # 0 => petals[i].sprite.draws = 1

C9_DisabledWithoutSurface ==
  surface # "ok" =>
    /\ rafPending = {}
    /\ rafId = 0
    /\ frames = 0
    /\ drawn = <<>>
    /\ petals = <<>>
    /\ listeners = {}
    /\ ~raised

\* C9: a page whose canvas gave no context has since seen a preference
\* change and a window resize
C9_Witness ==
  /\ surface = "noContext"
  /\ steps >= 2
  /\ lastOp = "resize"
  /\ \E q \in ChangingQueries : media[q]

\* C10: at every moment at most one frame callback is pending, whatever
\* sequence of start() calls and ticks has run; the pending one is the one
\* rafId names.
C10_OnePendingFrame ==
  /\ Cardinality(rafPending) <= 1
  /\ rafPending \subseteq {rafId}

\* C10: start() was called again while a callback was pending, and a tick
\* has run since
C10_Witness ==
  /\ restarts >= 1
  /\ lastOp = "tick"
  /\ rafPending = {rafId}

\* C11: with every combination of the five preference signals the stored
\* visibility boost is clamp(0.45 [increased contrast] + 0.5 [forced colors]
\* + 0.25 [reduced transparency] + 0.2 [narrow gamut] - 0.2 [decreased
\* contrast], 0, 1) for the signals as they are now, and lies in [0, 1]; a
\* signal is active when its query exists and matches, the gamut is narrow
\* when the p3 query exists and does not match.  The script is notified of
\* a change when the query objects take a listener.
C11_BoostFormula ==
  LET active(q) == host.matchMedia # "none" /\ media[q]
      narrow == host.matchMedia # "none" /\ ~media["gamutP3"]
      sum == (IF active("more") THEN 45 ELSE 0)
               + (IF active("forcedColors") THEN 50 ELSE 0)
               + (IF active("reduceTransparency") THEN 25 ELSE 0)
               + (IF narrow THEN 20 ELSE 0)
               - (IF active("less") THEN 20 ELSE 0)
      expected == IF sum < 0 THEN 0 ELSE IF sum > 100 THEN 100 ELSE sum
  IN /\ visibilityBoost >= 0
     /\ visibilityBoost <= 100
     /\ host.matchMedia \in {"modern", "legacy", "none"} =>
          visibilityBoost = expected

\* C11: a change notification has left decreased contrast and reduced
\* transparency active on a wide-gamut display: the boost is 0.25 - 0.2
C11_Witness ==
  /\ lastOp = "media"
  /\ host.matchMedia = "legacy"
  /\ media["less"] /\ media["reduceTransparency"] /\ media["gamutP3"]
  /\ ~media["more"] /\ ~media["forcedColors"]
  /\ visibilityBoost = 5

\* C12 (amended): with forced colors and increased contrast both active the
\* visibility boost is clamp(0.95 + 0.25 [reduced transparency]
\* + 0.2 [narrow gamut] - 0.2 [decreased contrast], 0, 1): at least 0.75,
\* exactly 0.95 on a wide-gamut display with no other signal active, and 1.0
\* exactly when reduced transparency is active, or the gamut is narrow and
\* decreased contrast is not active.
C12_ForcedAndMore ==
  (host.matchMedia \in {"modern", "legacy"}
     /\ media["forcedColors"] /\ media["more"]) =>
    /\ visibilityBoost >= 75
    /\ visibilityBoost = 100 <=>
         (media["reduceTransparency"]
            \/ (~media["gamutP3"] /\ ~media["less"]))
    /\ (media["gamutP3"] /\ ~media["reduceTransparency"] /\ ~media["less"]) =>
         visibilityBoost = 95

\* C12: forced colors and increased contrast are active on a wide-gamut
\* display after a change notification, and nothing else is
C12_Witness ==
  /\ lastOp = "media"
  /\ host.matchMedia = "modern"
  /\ media["forcedColors"] /\ media["more"] /\ media["gamutP3"]
  /\ ~media["reduceTransparency"] /\ ~media["less"]
  /\ visibilityBoost = 95

\* C12 as stated: forced colors with increased contrast give a boost of 1.0
C12_Original ==
  (host.matchMedia \in {"modern", "legacy"}
     /\ media["forcedColors"] /\ media["more"]) =>
    visibilityBoost = 100

\* C13 (amended): with reduced motion active and the motion multiplier 0.4
\* the motion scale is 0.08 * 0.4 = 0.032, and over a tick whose delta time
\* is the clamped maximum 0.04 s a particle's rotation advances by
\* rotSpeed * 0.04 * 0.032: 0.00064 rad for a rotation speed of 0.5 rad/s.
C13_ReducedRotation ==
  /\ [](reducedMotion =>
          /\ motionScaleOf(reducedMotion) = 32
          /\ advance(500000, Min(40, 1080), motionScaleOf(reducedMotion)) = 640)
  /\ [][(frames' = frames + 1 /\ reducedMotion /\ lastT' - lastT >= 40) =>
          \A i \in DOMAIN petals \cap DOMAIN petals' :
            petals'[i].rot - petals[i].rot =
              MulDiv(MulDiv(petals[i].rotSpeed, 40, 1000), 32, 1000)]_vars

\* C13: a tick with the clamped delta time has run under reduced motion and
\* turned a particle
C13_Witness ==
  /\ ops = <<"tick">>
  /\ reducedMotion
  /\ \E t0 \in LoadTimes : lastT - t0 >= 40
  /\ \E i \in DOMAIN petals : petals[i].rotSpeed # 0

\* C13 as stated: the rotation of a particle turning at 0.5 rad/s advances
\* by 0.0016 rad over that tick
C13_Original ==
  reducedMotion =>
    /\ motionScaleOf(reducedMotion) = 32
    /\ advance(500000, Min(40, 1080), motionScaleOf(reducedMotion)) = 1600

\* C14 as stated: in every tick, each particle that is not respawned falls
\* by vy * dt times the motion scale of the reduced-motion preference as it
\* is at that tick (0.032 when active, 0.08 times the 0.4 it is otherwise),
\* and its y strictly increases.
C14_Original ==
  [][(frames' = frames + 1 /\ host.matchMedia # "none") =>
       \A i \in DOMAIN petals \cap DOMAIN petals' :
         ~drawn'[i].respawned =>
           /\ petals'[i].y > petals[i].y
           /\ petals'[i].y - petals[i].y =
                MulDiv(MulDiv(petals[i].vy, Min(40, lastT' - lastT), 1000),
                       IF media["reducedMotion"] THEN 32 ELSE 400, 1000)]_vars

\* C15: while the script runs, the number of particles left by the load, by
\* each resize event and by each preset change is the target count
\* clamp(round(42 * (w * h / (1100 * 700)) * countScale), 12, maxCount) with
\* maxCount = max(12, round(90 * countScale)); round(r) is the integer within
\* one half of the exact quotient (42 / 770000 = 3 / 55000, countScale in
\* hundredths).  The same holds of the target computed for a 1100 x 700, a
\* 2000 x 1500 and a 1 x 1 viewport at every preset, and 1100 x 700 at
\* countScale 1.0 gives 42.
C15_TargetCount ==
  LET rounds(r, num, den) == (2 * r - 1) * den <= 2 * num /\ 2 * num < (2 * r + 1) * den
      formula(t, width, height, cs) ==
        \E r \in 0 .. 190 :
          /\ rounds(r, 3 * (width * height) * cs, 5500000)
          /\ \E mx \in 0 .. 190 :
               /\ rounds(mx, 90 * cs, 100)
               /\ t = Max(12, Min(Max(12, mx), r))
  IN /\ (startupGuard(surface) /\ ~raised) =>
          /\ Len(petals) > 0
          /\ formula(Len(petals), w, h, levels[level + 1].countScale)
     /\ lastOp = "load" =>
          /\ \A lv \in 0 .. Len(levels) - 1 :
               \A sz \in {<<1100, 700>>, <<2000, 1500>>, <<1, 1>>, <<w, h>>} :
                 formula(targetCount(sz[1], sz[2], lv), sz[1], sz[2],
                         levels[lv + 1].countScale)
          /\ levels[level + 1].countScale = 100 => targetCount(1100, 700, level) = 42

\* C15: a resize event to a larger viewport raised the target from 12 to 13
C15_Witness ==
  /\ lastOp = "resize"
  /\ before.n = 12
  /\ w = 700 /\ h = 330
  /\ Len(petals) = 13

\* C16: in every step (a frame with or without respawns or a preset change,
\* a resize event, a preference change with its refresh of the petals'
\* visuals), each petal that stays in the collection keeps its shape, size,
\* vx, vy, base colors and alpha seed; and a frame that respawns a petal
\* changes, besides the rotation its physics advanced, only that petal's x
\* and y (and its sprite, when the same frame changed the preset and
\* re-rendered the sprites).
C16_IdentityKept ==
  [][\A i \in DOMAIN petals \cap DOMAIN petals' :
       /\ petals'[i].shape = petals[i].shape
       /\ petals'[i].size = petals[i].size
       /\ petals'[i].vx = petals[i].vx
       /\ petals'[i].vy = petals[i].vy
       /\ petals'[i].baseA = petals[i].baseA
       /\ petals'[i].baseB = petals[i].baseB
       /\ petals'[i].alphaSeed = petals[i].alphaSeed
       /\ (frames' = frames + 1 /\ drawn'[i].respawned) =>
            /\ \A f \in DOMAIN petals[i] \ {"x", "y", "rot", "sprite", "spriteSize"} :
                 petals'[i][f] = petals[i][f]
            /\ level' = level =>
                 /\ petals'[i].sprite = petals[i].sprite
                 /\ petals'[i].spriteSize = petals[i].spriteSize
            /\ petals'[i].rot - petals[i].rot =
                 advance(petals[i].rotSpeed, Min(maxDtMs, lastT' - lastT),
                         motionScaleOf(reducedMotion))]_vars

\* C16: a frame that changed no preset respawned a petal after a preference
\* change refreshed the petals' visuals
C16_Witness ==
  /\ ops = <<"media", "tick">>
  /\ changeT = -1
  /\ \E i \in DOMAIN drawn : drawn[i].respawned

\* C17 (amended): on a host without matchMedia, or whose query objects have
\* neither addEventListener nor addListener, the load completes and the
\* animation runs (petals seeded, a frame requested, no exception).  Without
\* matchMedia reduced motion is false and the visibility boost is 0 (no
\* narrow-gamut term).  With matchMedia, reduced motion and the boost are
\* those of the queries as they matched at load, and without subscription
\* methods they keep those values whatever the queries match later.
C17_Unsubscribed ==
  /\ [](host.matchMedia \in {"none", "static"} =>
          /\ ~raised
          /\ Len(petals) > 0
          /\ rafPending # {})
  /\ [](host.matchMedia = "none" => ~reducedMotion /\ visibilityBoost = 0)
  /\ [](host.matchMedia # "none" /\ lastOp = "load" =>
          LET active(q) == media[q]
              sum == (IF active("more") THEN 45 ELSE 0)
                       + (IF active("forcedColors") THEN 50 ELSE 0)
                       + (IF active("reduceTransparency") THEN 25 ELSE 0)
                       + (IF ~active("gamutP3") THEN 20 ELSE 0)
                       - (IF active("less") THEN 20 ELSE 0)
              atLoad == IF sum < 0 THEN 0 ELSE IF sum > 100 THEN 100 ELSE sum
          IN /\ reducedMotion = media["reducedMotion"]
             /\ visibilityBoost = atLoad)
  /\ [][host.matchMedia = "static" =>
          /\ reducedMotion' = reducedMotion
          /\ visibilityBoost' = visibilityBoost]_vars

\* C17: on a host whose query objects offer no subscription method, the
\* reduced-motion preference read as active at load has been turned off and
\* the script still has it active
C17_Witness ==
  /\ host.matchMedia = "static"
  /\ lastOp = "media"
  /\ reducedMotion
  /\ ~media["reducedMotion"]
  /\ ~raised /\ rafPending # {}

\* C17 as stated: without matchMedia or without subscription methods reduced
\* motion is false and the visibility boost is 0
C17_Original ==
  host.matchMedia \in {"none", "static"} =>
    /\ ~raised
    /\ ~reducedMotion
    /\ visibilityBoost = 0

\* C18 (amended): while the script runs, the effective pixel density left by
\* the load, by each resize event and by each preset change is the device
\* pixel ratio held between 1 and the active preset's dprMax: dprMax for a
\* ratio above it, 1 for a ratio below 1, the ratio itself in between.
C18_DprClamped ==
  (startupGuard(surface) /\ ~raised) =>
    LET ratio == screen.devicePixelRatio
        dprMax == levels[level + 1].dprMax
    IN /\ ratio > dprMax => dpr = dprMax
       /\ ratio < 100 => dpr = 100
       /\ (ratio >= 100 /\ ratio <= dprMax) => dpr = ratio

\* C18: a resize event has moved the page to a screen whose device pixel
\* ratio is 0.5
C18_Witness ==
  /\ lastOp = "resize"
  /\ startupGuard(surface) /\ ~raised
  /\ screen.devicePixelRatio = 50
  /\ dpr = 100

\* C18 as stated: the effective pixel density is
\* min(devicePixelRatio, dprMax) for every device pixel ratio
C18_Original ==
  (startupGuard(surface) /\ ~raised) =>
    dpr = Min(screen.devicePixelRatio, levels[level + 1].dprMax)

\* C19: every resize event and every preset change of a running script keeps
\* the first min(old count, new count) petals at their indices.  A resize
\* event leaves each of them as it was in every field but x, y included; a
\* frame that changes the preset leaves each of them its identity (shape,
\* size, velocity, base colors, alpha seed, rotation speed) and moves it by
\* the frame's physics only: unless the frame respawned it, y and rot
\* advance from their old values by the frame's step (x may also have been
\* redrawn by the resize's pull-back of far-off petals).
C19_Incremental ==
  [][LET keep == 1 .. Min(Len(petals), Len(petals'))
         dtMs == Min(maxDtMs, lastT' - lastT)
         scale == motionScaleOf(reducedMotion)
     IN /\ (lastOp' = "resize" /\ ops' # ops /\ startupGuard(surface) /\ ~raised) =>
             /\ Len(petals) > 0
             /\ \A i \in keep : petals'[i] = [petals[i] EXCEPT !.x = petals'[i].x]
        /\ level' # level =>
             /\ Len(petals) > 0
             /\ \A i \in keep :
                  /\ petals'[i] = [petals[i] EXCEPT !.x = petals'[i].x,
                                                    !.y = petals'[i].y,
                                                    !.rot = petals'[i].rot,
                                                    !.sprite = petals'[i].sprite,
                                                    !.spriteSize = petals'[i].spriteSize]
                  /\ ~drawn'[i].respawned =>
                       /\ petals'[i].y = petals[i].y + advance(petals[i].vy, dtMs, scale)
                       /\ petals'[i].rot = petals[i].rot + advance(petals[i].rotSpeed, dtMs, scale)]_vars

\* C19: a resize event grew the field from 12 to 13 petals and the next
\* frame stepped the preset down, truncating it to 12
C19_Witness ==
  /\ ops = <<"resize", "tick">>
  /\ before.n = 12
  /\ w = 700
  /\ level = 1
  /\ changeT = lastT
  /\ Len(petals) = 12

\* C20 as stated: a resize event that grows a seeded field leaves every
\* petal it added inside the entry band of the new viewport: x within
\* [-0.25 * w, 0.35 * w] and y within [-h, -size].
C20_Original ==
  [][(lastOp' = "resize" /\ ops' # ops /\ Len(petals) > 0
        /\ Len(petals') > Len(petals)) =>
       \A i \in Len(petals) + 1 .. Len(petals') :
         /\ petals'[i].x >= -Part(w', 25)
         /\ petals'[i].x <= Part(w', 35)
         /\ petals'[i].y >= -Part(h', 100)
         /\ petals'[i].y <= -petals'[i].size]_vars

\* C21: in every state of a running script the number of petals is the
\* target count of the current window size and preset, and lies between 12
\* and max(12, round(90 * countScale)); the target of a window too large for
\* the model's fields (1300 x 1300, 2000 x 1500) is that upper limit and the
\* target of a 1 x 1 window is 12.  A frame that leaves the preset as it is,
\* respawns included, leaves the number of petals as it is, and respawns
\* only petals of the field.
C21_CountBounded ==
  /\ []((startupGuard(surface) /\ ~raised) =>
          /\ w = Max(1, screen.innerWidth)
          /\ h = Max(1, screen.innerHeight)
          /\ Len(petals) = targetCount(w, h, level)
          /\ Len(petals) >= 12
          /\ Len(petals) <= Max(12, RoundDiv(90 * levels[level + 1].countScale, 100)))
  /\ [](lastOp = "load" =>
          \A lv \in 0 .. Len(levels) - 1 :
            /\ targetCount(1300, 1300, lv) = Max(12, RoundDiv(90 * levels[lv + 1].countScale, 100))
            /\ targetCount(2000, 1500, lv) = Max(12, RoundDiv(90 * levels[lv + 1].countScale, 100))
            /\ targetCount(1, 1, lv) = 12)
  /\ [][(frames' = frames + 1) =>
          /\ level' = level => Len(petals') = Len(petals)
          /\ DOMAIN drawn' = DOMAIN petals']_vars

\* C21: in the desktop window a frame has respawned a petal and the field
\* still holds the 49 petals of preset 0
C21_Witness ==
  /\ lastOp = "tick"
  /\ w = 1000
  /\ level = 0
  /\ Len(petals) = 49
  /\ \E i \in DOMAIN drawn : drawn[i].respawned

\* C22: a frame smooths the cost over the whole gap G since the frame before
\* it, avgMs' = 0.9 * avgMs + 0.1 * G, while its physics uses min(G, 40 ms);
\* and a frame with G >= 1200 ms, whose smoothed cost is then above 30 ms,
\* is an evaluation that steps the preset one down in quality in that same
\* frame unless it is the lowest already, whatever the cost was before.
C22_StallStepsDown ==
  [][(frames' = frames + 1) =>
       LET G == lastT' - lastT
       IN /\ avgMs' = (9 * avgMs + 1000 * G) \div 10
          /\ \A i \in DOMAIN petals \cap DOMAIN petals' :
               ~drawn'[i].respawned =>
                 petals'[i].y - petals[i].y =
                   advance(petals[i].vy, IF G > 40 THEN 40 ELSE G,
                           motionScaleOf(reducedMotion))
          /\ G >= 1200 =>
               /\ avgMs' > 30000
               /\ lastAdjust' = lastT'
               /\ level < 2 => (level' = level + 1 /\ changeT' = lastT')
               /\ level = 2 => level' = 2]_vars

\* C22: after two frames 4 ms apart, which brought the smoothed cost below
\* 18 ms, a frame 1200 ms late has stepped the preset down
C22_Witness ==
  /\ ops = <<"tick", "tick", "tick">>
  /\ \E t0 \in LoadTimes : lastT = t0 + 4 + 4 + 1200
  /\ changeT = lastT
  /\ level = 1

\* C23: each button has at most one timeout pending, and it is the one its
\* shimmerTimers entry names; a mouseenter or a focusin on a button whose
\* sweep is running (an entry in shimmerTimers, or the class shimmer-active
\* present) changes no button's class, no timer entry and no pending
\* timeout, in every order of mouseenter, mouseleave, focusin and timeouts.
C23_NeverRestarted ==
  /\ [](\A btn \in Buttons :
          /\ Cardinality({t \in timeouts : t.btn = btn}) <= 1
          /\ \A t \in timeouts : t.btn = btn => shimmerTimers[btn] = t.id
          /\ shimmerTimers[btn] # 0 =>
               [id |-> shimmerTimers[btn], btn |-> btn] \in timeouts)
  /\ [][\A btn \in Buttons :
          (/\ Len(events') > Len(events)
           /\ events'[Len(events')].btn = btn
           /\ events'[Len(events')].e \in {"mouseenter", "focusin"}
           /\ (shimmerTimers[btn] # 0 \/ btn \in shimmerActive)) =>
            /\ shimmerActive' = shimmerActive
            /\ shimmerTimers' = shimmerTimers
            /\ timeouts' = timeouts]_allVars

\* C23: a focusin started a sweep on a button and a mouseenter arrived while
\* its timeout was pending
C23_Witness ==
  /\ events = << [e |-> "focusin", btn |-> 1], [e |-> "mouseenter", btn |-> 1] >>
  /\ shimmerTimers[1] # 0
  /\ 1 \in shimmerActive
  /\ Cardinality(timeouts) = 1

\* C24: when a button's timeout fires while the button is in hoveredButtons
\* a new sweep is running right after (class present, a new timeout
\* pending); when it fires after the pointer left, the class is gone, no
\* timeout is pending and no entry is left.  A mouseleave changes no class
\* and no timeout, so the running sweep goes on to its timeout.  A sweep
\* starts on a button without one only in a mouseenter, in a focusin or in
\* that button's timeout while hovered.  And once no further input comes, a
\* button that is not hovered becomes inactive and stays so.
C24_LoopsWhileHovered ==
  /\ [][\A btn \in Buttons :
          LET recorded == Len(events') > Len(events) /\ events'[Len(events')].btn = btn
              e == events'[Len(events')].e
              running == btn \in shimmerActive' /\ shimmerTimers'[btn] # 0
                           /\ [id |-> shimmerTimers'[btn], btn |-> btn] \in timeouts'
              idle == btn \notin shimmerActive' /\ shimmerTimers'[btn] = 0
                        /\ \A t \in timeouts' : t.btn # btn
          IN /\ (recorded /\ e = "timeout") =>
                  /\ btn \in shimmerActive
                  /\ IF btn \in hoveredButtons THEN running ELSE idle
             /\ (recorded /\ e = "mouseleave") =>
                  /\ shimmerActive' = shimmerActive
                  /\ shimmerTimers' = shimmerTimers
                  /\ timeouts' = timeouts
             /\ (btn \notin shimmerActive /\ btn \in shimmerActive') =>
                  recorded /\ e \in {"mouseenter", "focusin"}]_allVars
  /\ \A btn \in Buttons :
       (Len(events) = MaxEvents /\ btn \notin hoveredButtons)
         ~> [](btn \notin shimmerActive /\ shimmerTimers[btn] = 0)

\* C24: a button was entered, its timeout fired while it was hovered, the
\* pointer left during the sweep that followed, and that sweep's timeout
\* left the button inactive
C24_Witness ==
  /\ events = << [e |-> "mouseenter", btn |-> 1], [e |-> "timeout", btn |-> 1],
                 [e |-> "mouseleave", btn |-> 1], [e |-> "timeout", btn |-> 1] >>
  /\ 1 \notin shimmerActive
  /\ shimmerTimers[1] = 0
  /\ timeouts = {}

\* C25: after the load and after every click on the language toggle, lang
\* is "ja" or "en", the lang attribute of <html> is lang, the toggle's
\* label, aria-label and title name the other language, the resume links
\* are those of lang and, when the last applyLanguage could write the
\* storage and it still can, the stored value is lang.  A click flips lang
\* (so two clicks restore it) in every storage mode, and changes in how the
\* storage answers change nothing on the page.
C25_LanguageConsistent ==
  /\ [](/\ lang \in {"ja", "en"}
        /\ htmlLang = lang
        /\ langBtn.label = (IF lang = "ja" THEN "EN" ELSE "u65E5u672Cu8A9E")
        /\ langBtn.ariaLabel = (IF lang = "ja" THEN "Switch to English" ELSE "Switch to Japanese")
        /\ langBtn.title = langBtn.ariaLabel
        /\ resumeLinks = RESUME_LINKS[lang]
        /\ resumeLinks.tech # resumeLinks.nonTech
        /\ RESUME_LINKS["ja"].tech # RESUME_LINKS["en"].tech
        /\ ((events = << >> \/ events[Len(events)].e = "click") /\ storage = "ok") =>
             stored = lang)
  /\ [][LET clicked == Len(events') > Len(events) /\ events'[Len(events')].e = "click"
        IN /\ clicked => (lang' # lang /\ lang' \in {"ja", "en"})
           /\ ~clicked => (lang' = lang /\ stored' = stored)]_allVars

\* C25: on a host whose storage throws on every call, two clicks have taken
\* the language to "en" and back to "ja", and nothing was stored
C25_Witness ==
  /\ events = << [e |-> "click", btn |-> 0], [e |-> "click", btn |-> 0] >>
  /\ storage = "blocked"
  /\ lang = "ja"
  /\ stored # lang

=============================================================================
